---- MODULE Spec2Model ----
(***************************************************************************)
(* Model of src/xmpp.go: the construction of an XMPP client                *)
(* (Options.NewClient -> connect, initial TLS, Client.init with            *)
(* startStream / startTlsIfRequired / SASL / bind) run against a server    *)
(* that may answer every read with any element, an end of stream or a      *)
(* read error, followed by the session operations Recv and Close.          *)
(***************************************************************************)
EXTENDS Integers, Sequences, FiniteSets, TLC

\* Longest <mechanisms> list the server advertises in one <features>.
MaxMechs == 2

VARIABLES
    opts,        \* the Options value NewClient runs on
    pc,          \* position inside NewClient / init / Recv
    ret,         \* which call of startStream is running: "init", "starttls", "postauth"
    sock,        \* the TCP connection made by connect: "none", "open", "closed"
    tlsLayers,   \* how many tls.Client wrappers c.conn carries (0: c.conn is the plain net.Conn)
    wire,        \* what has crossed the transport so far: elements written ("w"), read and
                 \* taken ("r"), read and answered with an error return ("e"), handshakes ("x")
    f,           \* the streamFeatures value init holds, up to its last use by init
    mechanism,   \* init's local variable mechanism
    jid,         \* c.jid
    result,      \* outcome of NewClient: "running", "ok", "err", "panic"
    err,         \* the error NewClient returned
    srvEOF,      \* the transport has reported end-of-stream
    spin,        \* parity of the iterations of the for loops of nextStart and Recv
    recvResult,  \* what the last Recv call returned: "none", "chat", "presence", "err"
    arrived,     \* the top-level elements next has read for Recv, in stream order
    delivered,   \* the values the Recv calls have returned, in call order
    written,     \* the caller's strings placed in the text of the last write, one
                 \* record for each: where, the string, the characters written for it
    dial,        \* the call of connect: its arguments, HTTP_PROXY, the address dialled
    digest,      \* the call of saslDigestResponse: its arguments and its result
    reader       \* the bytes of the server and the decoder that reads them

vars == <<opts, pc, ret, sock, tlsLayers, wire, f, mechanism, jid, result, err,
          srvEOF, spin, recvResult, arrived, delivered, written, dial, digest, reader>>

\* The variables of NewClient and init.
mainVars == <<opts, pc, ret, sock, tlsLayers, wire, f, mechanism, jid, result, err,
              srvEOF, spin, recvResult>>

\* The variables of Recv.
sessionVars == <<arrived, delivered>>

\* The variables of the functions modelled on their own.
pureVars == <<written, dial, digest, reader>>

\* The variables that NewClient and init do not touch.
others == <<sessionVars, pureVars>>

----------------------------------------------------------------------------
(* Data *)

\* o.User as a string of characters.
Users == { <<"u", "@", "d">>, <<"u", "d">> }

\* More user strings: also with nothing before "@", with nothing after it.
UsersTried == Users \cup { << "@", "d" >>, << "u", "@" >>, << "@" >> }

\* c.p of init, nothing sent yet. stream: the bytes the server has sent;
\* inflight: the positions in stream of the bytes no Read of c.conn has
\* returned yet; buf: those a Read has put into the bufio.Reader that
\* xml.NewDecoder wraps c.conn in (a net.Conn or tls.Conn is no io.ByteReader)
\* and the decoder has not taken yet; consumed: those the decoder of each phase
\* or the TLS handshake has taken; lost: those that were in the buffer of a
\* decoder when c.p was replaced.
FreshReader ==
    [ phase |-> "plain", stream |-> << >>, inflight |-> << >>, buf |-> << >>,
      consumed |-> << >>, lost |-> << >> ]

\* saslDigestResponse has not been called.
NoDigest == [ called |-> FALSE ]

\* connect has not been called.
NoDial == [ called |-> FALSE, host |-> << >>, user |-> << >>, proxy |-> << >>, addr |-> << >> ]

OptionsSet ==
    [ User : Users,
      NoTLS : BOOLEAN,
      StartTLS : BOOLEAN,
      InsecureAllowUnencryptedAuth : BOOLEAN,
      Session : BOOLEAN ]

\* Mechanism names a server may advertise; the last one is not implemented by init.
Mechs == { "ANONYMOUS", "PLAIN", "DIGEST-MD5", "SCRAM-SHA-1" }

MechLists == UNION { [1..n -> Mechs] : n \in 0..MaxMechs }

\* streamFeatures.StartTLS: nil, present with Required = nil, present with Required # nil.
StartTLSMarks == { "nil", "optional", "required" }

Features == [ StartTLS : StartTLSMarks, Mechanisms : MechLists ]

NoFeatures == [ StartTLS |-> "nil", Mechanisms |-> <<>> ]

\* Top-level elements the server may send; "unknown" is a name outside the table of next.
Elements ==
    { "stream", "features", "proceed", "tlsfailure", "challenge", "success",
      "saslfailure", "iq", "message", "presence", "unknown" }

\* Local name of the child of a SASL <failure>.
FailureConditions == { "not-authorized", "aborted" }

\* <jid> of the <bind> of an <iq>; "" when the <iq> carries no <bind> or no <jid>.
Jids == { "", "u@d/a", "u@d/b" }

\* What the server sends where init reads a challenge.
ChallengeReplies == { "challenge", "saslfailure", "success" }

\* Character data of the element read where a challenge is expected: base64 of
\* a (possibly empty) list of key=value tokens, text that is not base64, base64
\* of a list with a token whose value is empty (key=).
Bodies == { "tokens", "badb64", "emptyval" }

NoErr == [ kind |-> "", detail |-> "" ]

\* Most elements one session reads through Recv.
MaxStanzas == 2

\* A top-level element as Recv meets it: its name and the attributes and
\* children that clientMessage and clientPresence keep.
Bare(el) == [ el |-> el, from |-> "", to |-> "", type |-> "", body |-> "", show |-> "" ]

Messages ==
    [ el : { "message" }, from : { "a@d" }, to : { "u@d/a" }, type : { "chat" },
      body : { "hi", "bye" }, show : { "" } ]

Presences ==
    [ el : { "presence" }, from : { "a@d", "b@d" }, to : { "u@d/a" }, type : { "" },
      body : { "" }, show : { "away" } ]

Stanzas ==
    Messages \cup Presences \cup { Bare(el) : el \in Elements \ { "message", "presence" } }

Ev(dir, el, arg, enc) == [ dir |-> dir, el |-> el, arg |-> arg, enc |-> enc ]

\* The event of reading the element el, before the SASL exchange, into a
\* streamFeatures with the STARTTLS mark arg, offer being the mechanism the loop
\* of init takes from its list.
FeaturesEv(el, arg, enc, offer) ==
    [ dir |-> "r", el |-> el, arg |-> arg, enc |-> enc, offer |-> offer ]

----------------------------------------------------------------------------
(* Pure helpers *)

\* strings.SplitN(s, "@", 2): at most two pieces, split at the first "@".
RECURSIVE IndexOf(_, _, _)
IndexOf(s, ch, i) ==
    IF i > Len(s) THEN 0
    ELSE IF s[i] = ch THEN i
    ELSE IndexOf(s, ch, i + 1)

SplitN2(s, ch) ==
    LET i == IndexOf(s, ch, 1)
    IN  IF i = 0 THEN << s >>
        ELSE << SubSeq(s, 1, i - 1), SubSeq(s, i + 1, Len(s)) >>

\* Client.IsEncrypted: c.conn is a *tls.Conn.
IsEncrypted == tlsLayers > 0

\* The conn NewClient stores: the plain connection under NoTLS, else a tls.Conn.
InitialLayers_plain(o) == 0

InitialLayers(o) == IF o.NoTLS THEN 0 ELSE 1

\* The switch of startTlsIfRequired: only its first case returns; the two other
\* cases have empty bodies and leave the switch, so the function goes on.
TlsSwitchReturns(feat, o) ==
    CASE feat.StartTLS = "nil" -> TRUE
      [] feat.StartTLS = "required" -> FALSE
      [] ~o.StartTLS -> FALSE
      [] OTHER -> FALSE

\* c.conn = t after a successful handshake in startTlsIfRequired.
WrapTLS(n) == n + 1

\* encoding/xml's name check of DecodeElement for the struct targets of init:
\* the element must carry the XMLName of the target.
ProceedOK_any(el) == el \in { "proceed", "tlsfailure" }

ProceedOK(el) == el = "proceed"

\* streamFeatures without its XMLName field would take any element.
FeaturesOK_unnamed(el) == TRUE

FeaturesOK(el) == el = "features"

IQOK(el) == el = "iq"

\* A saslChallenge / saslRspAuth target is a string: it has no XMLName, so
\* DecodeElement takes whatever element comes next and stores its character data.
ChallengeOK(el) == TRUE

\* The features init goes on with after startStream has returned new to the
\* caller r, old being the ones it had: startTlsIfRequired hands the caller the
\* features of the stream it restarted (return tf), not the ones it was given.
FeaturesKept_given(r, old, new) == IF r = "init" THEN new ELSE old

FeaturesKept(r, old, new) == IF r = "postauth" THEN old ELSE new

\* init after the bind reply: the session IQ is written under o.Session.
SessionWrites_always(o, enc) == << Ev("w", "iq", "session", enc) >>

SessionWrites(o, enc) == IF o.Session THEN << Ev("w", "iq", "session", enc) >> ELSE << >>

\* The refusal test of init.
RefuseUnencrypted_never(o) == FALSE

RefuseUnencrypted_inverted(o) == ~IsEncrypted /\ o.InsecureAllowUnencryptedAuth

RefuseUnencrypted(o) == ~IsEncrypted /\ ~o.InsecureAllowUnencryptedAuth

\* The mechanism loop of init: the first list element that is one of the three
\* names the loop body tests, "" when the loop ends without a match.
RECURSIVE MechLoop_prefer(_, _)
MechLoop_prefer(ms, i) ==
    IF \E k \in 1..Len(ms) : ms[k] = "PLAIN" THEN "PLAIN"
    ELSE IF i > Len(ms) THEN ""
    ELSE IF ms[i] = "ANONYMOUS" THEN "ANONYMOUS"
    ELSE IF ms[i] = "DIGEST-MD5" THEN "DIGEST-MD5"
    ELSE MechLoop_prefer(ms, i + 1)

RECURSIVE MechLoop(_, _)
MechLoop(ms, i) ==
    IF i > Len(ms) THEN ""
    ELSE IF ms[i] = "ANONYMOUS" THEN "ANONYMOUS"
    ELSE IF ms[i] = "PLAIN" THEN "PLAIN"
    ELSE IF ms[i] = "DIGEST-MD5" THEN "DIGEST-MD5"
    ELSE MechLoop(ms, i + 1)

\* The table of next: the names it allocates a value for.
NextTable ==
    { "features", "proceed", "tlsfailure", "challenge", "success",
      "saslfailure", "iq", "message", "presence" }

\* next passes a string, not a pointer, for <challenge> and <response>:
\* DecodeElement refuses it.
NextDecodes(el) == el \in NextTable \ { "challenge" }

\* The namespace and the local name of an element of Elements.
Space(el) ==
    CASE el \in { "stream", "features" } -> "http://etherx.jabber.org/streams"
      [] el \in { "proceed", "tlsfailure" } -> "urn:ietf:params:xml:ns:xmpp-tls"
      [] el \in { "challenge", "success", "saslfailure" } -> "urn:ietf:params:xml:ns:xmpp-sasl"
      [] el \in { "iq", "message", "presence" } -> "jabber:client"
      [] OTHER -> "urn:xmpp:ping"

Local(el) ==
    CASE el \in { "tlsfailure", "saslfailure" } -> "failure"
      [] el = "unknown" -> "ping"
      [] OTHER -> el

\* The error of the default case of next.
UnexpectedMsg_local(el) == "unexpected XMPP message <" \o Local(el) \o "/>"

UnexpectedMsg(el) == "unexpected XMPP message " \o Space(el) \o " <" \o Local(el) \o "/>"

\* The values Recv returns.
ToChat_swapped(v) == [ kind |-> "chat", remote |-> v.to, type |-> v.type, text |-> v.body ]

ToChat(v) == [ kind |-> "chat", remote |-> v.from, type |-> v.type, text |-> v.body ]

ToPresence(v) ==
    [ kind |-> "presence", from |-> v.from, to |-> v.to, type |-> v.type, show |-> v.show ]

RecvError(d) == [ kind |-> "err", detail |-> d ]

\* `&iq.Bind == nil`: the address of a struct field is never nil.
BindMissing(j) == FALSE

----------------------------------------------------------------------------
(* Init *)

\* None of the functions modelled on their own has been called.
PureIdle ==
    /\ written = << >>
    /\ dial = NoDial
    /\ digest = NoDigest
    /\ reader = FreshReader

\* NewClient is called on the options o.
Start(o) ==
    /\ opts = o
    /\ pc = "connect"
    /\ ret = "init"
    /\ sock = "none"
    /\ tlsLayers = 0
    /\ wire = << >>
    /\ f = NoFeatures
    /\ mechanism = ""
    /\ jid = ""
    /\ result = "running"
    /\ err = NoErr
    /\ srvEOF = FALSE
    /\ spin = 0
    /\ recvResult = "none"
    /\ arrived = << >>
    /\ delivered = << >>
    /\ PureIdle

Init == \E o \in OptionsSet : Start(o)

----------------------------------------------------------------------------
(* Outcomes of one step *)

\* An error return of init: NewClient calls client.Close and returns the error.
\* w is the wire after the step.
InitFails(kind, detail, w) ==
    /\ result' = "err"
    /\ err' = [ kind |-> kind, detail |-> detail ]
    /\ sock' = "closed"
    /\ pc' = "done"
    /\ wire' = w
    /\ spin' = 0
    /\ UNCHANGED <<opts, others, ret, tlsLayers, f, mechanism, jid, recvResult>>

\* An error return of NewClient before init: the connection is left as it is.
EarlyFails(kind, detail) ==
    /\ result' = "err"
    /\ err' = [ kind |-> kind, detail |-> detail ]
    /\ pc' = "done"
    /\ UNCHANGED <<opts, others, ret, tlsLayers, wire, f, mechanism, jid, spin, recvResult>>

\* The handler goes on to position p; w is the wire after the step.
Goes(p, w) ==
    /\ pc' = p
    /\ wire' = w
    /\ spin' = 0
    /\ UNCHANGED <<opts, others, ret, sock, tlsLayers, f, mechanism, jid, result, err, recvResult>>

\* One more round of the for loop the handler is in.
Loops ==
    /\ spin' = 1 - spin
    /\ UNCHANGED <<opts, others, pc, ret, sock, tlsLayers, wire, f, mechanism, jid, result,
                   err, recvResult>>

\* The wire with one more event on it.
Logged(dir, el, arg) == Append(wire, Ev(dir, el, arg, IsEncrypted))

----------------------------------------------------------------------------
(* Options.NewClient up to the call of init *)

\* connect: dial, and with HTTP_PROXY set the CONNECT exchange. The error
\* returns after the dial do not close c.
Connect ==
    /\ pc = "connect"
    /\ \E dialOK \in BOOLEAN, proxy \in BOOLEAN, resp \in { "200", "403", "readerr" } :
          IF ~dialOK
          THEN /\ EarlyFails("Transport", "dial")
               /\ UNCHANGED sock
          ELSE /\ sock' = "open"
               /\ IF proxy /\ resp = "readerr"
                  THEN EarlyFails("Transport", "proxy")
                  ELSE IF proxy /\ resp # "200"
                  THEN EarlyFails("Proxy", resp)
                  ELSE /\ pc' = "tlsinit"
                       /\ UNCHANGED <<opts, others, ret, tlsLayers, wire, f, mechanism, jid,
                                      result, err, spin, recvResult>>
    /\ UNCHANGED srvEOF

\* NewClient: client.conn is the plain connection or, after Handshake and
\* VerifyHostname, the tls.Conn. Both error returns leave the connection open.
InitialTLS ==
    /\ pc = "tlsinit"
    /\ IF opts.NoTLS
       THEN /\ tlsLayers' = InitialLayers(opts)
            /\ pc' = "init"
            /\ UNCHANGED <<opts, others, ret, wire, f, mechanism, jid, result, err, spin,
                           recvResult>>
       ELSE \E handshake \in BOOLEAN, verify \in BOOLEAN :
              IF ~handshake
              THEN EarlyFails("Transport", "handshake")
              ELSE IF ~verify
              THEN EarlyFails("Transport", "hostname")
              ELSE /\ tlsLayers' = InitialLayers(opts)
                   /\ wire' = Append(wire, Ev("x", "handshake", "initial", TRUE))
                   /\ pc' = "init"
                   /\ UNCHANGED <<opts, others, ret, f, mechanism, jid, result, err, spin,
                                  recvResult>>
    /\ UNCHANGED <<sock, srvEOF>>

----------------------------------------------------------------------------
(* Client.init *)

\* init: the decoder is created and o.User is split at "@".
InitUser ==
    /\ pc = "init"
    /\ IF Len(SplitN2(opts.User, "@")) # 2
       THEN InitFails("InvalidUser", "", wire)
       ELSE Goes("ss_write", wire)
    /\ UNCHANGED srvEOF

\* startStream: a new decoder, then the stream header is written; a write
\* error is returned.
StreamWrite ==
    /\ pc = "ss_write"
    /\ \E ok \in BOOLEAN :
          IF ok
          THEN Goes("ss_start", Logged("w", "stream", ""))
          ELSE InitFails("Transport", "write", wire)
    /\ UNCHANGED srvEOF

\* startStream: nextStart on the fresh decoder, one round of its loop, and the
\* test of the element's name. Token's io.EOF is not returned: the loop goes
\* round again. No element is open in a fresh decoder, so the end of the
\* stream is io.EOF.
StreamStart ==
    /\ pc = "ss_start"
    /\ \/ /\ srvEOF' = TRUE
          /\ Loops
       \/ /\ ~srvEOF
          /\ UNCHANGED srvEOF
          /\ \/ Loops
             \/ InitFails("Transport", "read", wire)
             \/ \E el \in Elements :
                   IF el = "stream"
                   THEN Goes("ss_features", Logged("r", el, ""))
                   ELSE InitFails("Protocol", "expected <stream>", Logged("e", el, ""))

\* startStream: DecodeElement into a streamFeatures; the features go to the
\* caller: init or startTlsIfRequired. After the restart that follows
\* <success/> init goes straight on to write the bind IQ (with or without
\* <resource>).
StreamFeatures ==
    /\ pc = "ss_features"
    /\ \/ /\ srvEOF' = TRUE
          /\ InitFails("Protocol", "unmarshal <features>", wire)
       \/ /\ ~srvEOF
          /\ UNCHANGED srvEOF
          /\ \/ InitFails("Protocol", "unmarshal <features>", wire)
             \/ \E el \in Elements :
                   IF FeaturesOK(el)
                   THEN \E feat \in Features :
                          /\ f' = FeaturesKept(ret, f, feat)
                          /\ wire' = IF ret = "postauth"
                                     THEN Logged("r", el, feat.StartTLS)
                                            \o << Ev("w", "iq", "bind", IsEncrypted) >>
                                     ELSE Append(wire, FeaturesEv(el, feat.StartTLS, IsEncrypted,
                                                             MechLoop(feat.Mechanisms, 1)))
                          /\ pc' = CASE ret = "init" -> "tls_switch"
                                      [] ret = "starttls" -> "policy"
                                      [] ret = "postauth" -> "bind_read"
                          /\ UNCHANGED <<opts, others, ret, sock, tlsLayers, mechanism, jid,
                                         result, err, spin, recvResult>>
                   ELSE InitFails("Protocol", "unmarshal <features>", Logged("e", el, ""))

\* startTlsIfRequired: the switch, then <starttls/> is written.
TlsSwitch ==
    /\ pc = "tls_switch"
    /\ IF TlsSwitchReturns(f, opts)
       THEN Goes("policy", wire)
       ELSE Goes("tls_proceed", Logged("w", "starttls", ""))
    /\ UNCHANGED srvEOF

\* startTlsIfRequired: DecodeElement into a tlsProceed.
TlsProceed ==
    /\ pc = "tls_proceed"
    /\ \/ /\ srvEOF' = TRUE
          /\ InitFails("StartTLS", "unmarshal <proceed>", wire)
       \/ /\ ~srvEOF
          /\ UNCHANGED srvEOF
          /\ \/ InitFails("StartTLS", "unmarshal <proceed>", wire)
             \/ \E el \in Elements :
                   IF ProceedOK(el)
                   THEN Goes("tls_handshake", Logged("r", el, ""))
                   ELSE InitFails("StartTLS", "unmarshal <proceed>", Logged("e", el, ""))

\* startTlsIfRequired: tls.Client over c.conn and its Handshake; on success
\* c.conn becomes the tls.Conn and the stream is restarted.
TlsHandshake ==
    /\ pc = "tls_handshake"
    /\ \E ok \in BOOLEAN :
          IF ok
          THEN /\ tlsLayers' = WrapTLS(tlsLayers)
               /\ wire' = Append(wire, Ev("x", "handshake", "starttls", TRUE))
               /\ pc' = "ss_write"
               /\ ret' = "starttls"
               /\ UNCHANGED <<opts, others, sock, f, mechanism, jid, result, err, spin,
                              recvResult>>
          ELSE InitFails("StartTLS", "starttls handshake", wire)
    /\ UNCHANGED srvEOF

\* init: the refusal to authenticate over an unencrypted connection.
Policy ==
    /\ pc = "policy"
    /\ IF RefuseUnencrypted(opts)
       THEN InitFails("AuthPolicy", "refusing to authenticate over unencrypted TCP connection",
                      wire)
       ELSE Goes("mech", wire)
    /\ UNCHANGED srvEOF

\* init: the loop over f.Mechanisms; the chosen mechanism's <auth> is written
\* inside the loop. Without a match init returns an error.
SelectMechanism ==
    /\ pc = "mech"
    /\ LET m == MechLoop(f.Mechanisms, 1)
       IN  IF m = ""
           THEN InitFails("AuthMechanism", "PLAIN authentication is not an option", wire)
           ELSE /\ mechanism' = m
                /\ wire' = Logged("w", "auth", m)
                /\ pc' = IF m = "DIGEST-MD5" THEN "digest_ch1" ELSE "auth_result"
                /\ UNCHANGED <<opts, others, ret, sock, tlsLayers, f, jid, result, err, spin,
                               recvResult>>
    /\ UNCHANGED srvEOF

\* init, DIGEST-MD5: DecodeElement into a saslChallenge, base64 decoding, the
\* token loop (kv[1][0] of an empty value is an index out of range), then the
\* <response> with the digest is written.
DigestChallenge ==
    /\ pc = "digest_ch1"
    /\ \/ /\ srvEOF' = TRUE
          /\ InitFails("Protocol", "unmarshal <challenge>", wire)
       \/ /\ ~srvEOF
          /\ UNCHANGED srvEOF
          /\ \/ InitFails("Protocol", "unmarshal <challenge>", wire)
             \/ \E el \in ChallengeReplies, body \in Bodies :
                   IF ~ChallengeOK(el)
                   THEN InitFails("Protocol", "unmarshal <challenge>", Logged("e", el, ""))
                   ELSE IF body = "badb64"
                   THEN InitFails("Protocol", "base64", Logged("e", el, ""))
                   ELSE IF body = "emptyval"
                   THEN /\ result' = "panic"
                        /\ pc' = "done"
                        /\ wire' = Logged("r", el, "")
                        /\ UNCHANGED <<opts, others, ret, sock, tlsLayers, f, mechanism, jid,
                                       err, spin, recvResult>>
                   ELSE Goes("digest_ch2",
                             Logged("r", el, "")
                               \o << Ev("w", "response", "digest", IsEncrypted) >>)

\* init, DIGEST-MD5: DecodeElement into a saslRspAuth, base64 decoding, then
\* the empty <response/> is written.
DigestRspAuth ==
    /\ pc = "digest_ch2"
    /\ \/ /\ srvEOF' = TRUE
          /\ InitFails("Protocol", "unmarshal <challenge>", wire)
       \/ /\ ~srvEOF
          /\ UNCHANGED srvEOF
          /\ \/ InitFails("Protocol", "unmarshal <challenge>", wire)
             \/ \E el \in ChallengeReplies, body \in Bodies :
                   IF ~ChallengeOK(el)
                   THEN InitFails("Protocol", "unmarshal <challenge>", Logged("e", el, ""))
                   ELSE IF body = "badb64"
                   THEN InitFails("Protocol", "base64", Logged("e", el, ""))
                   ELSE Goes("auth_result",
                             Logged("r", el, "")
                               \o << Ev("w", "response", "", IsEncrypted) >>)

\* init: next and the type switch on its value, one round of the loop of
\* nextStart. <stream:stream> is open here: at the end of the stream Token
\* gives io.EOF (the loop goes round) or, in an encoding/xml that reports the
\* unclosed element, a syntax error (returned). After <success/> the stream is
\* restarted and its features overwrite f, which init does not read again: the
\* model keeps no features from here on.
AuthResult ==
    /\ pc = "auth_result"
    /\ \/ /\ srvEOF' = TRUE
          /\ \/ Loops
             \/ InitFails("Protocol", "unexpected EOF", wire)
       \/ /\ ~srvEOF
          /\ UNCHANGED srvEOF
          /\ \/ Loops
             \/ InitFails("Transport", "read", wire)
             \/ \E el \in Elements :
                   IF el \notin NextTable
                   THEN InitFails("Protocol", UnexpectedMsg(el), Logged("e", el, ""))
                   ELSE IF ~NextDecodes(el)
                   THEN InitFails("Protocol", "non-pointer passed to Unmarshal",
                                  Logged("e", el, ""))
                   ELSE IF el = "success"
                   THEN /\ wire' = Logged("r", el, "")
                        /\ pc' = "ss_write"
                        /\ ret' = "postauth"
                        /\ f' = NoFeatures
                        /\ spin' = 0
                        /\ UNCHANGED <<opts, others, sock, tlsLayers, mechanism, jid, result,
                                       err, recvResult>>
                   ELSE IF el = "saslfailure"
                   THEN \E cond \in FailureConditions :
                          InitFails("AuthFailed", cond, Logged("r", el, cond))
                   ELSE InitFails("Protocol", "expected <success> or <failure>",
                                  Logged("e", el, ""))

\* init: DecodeElement into a clientIQ, the test of &iq.Bind, c.jid is set;
\* then the session IQ under o.Session and the initial presence are written and
\* init returns nil: NewClient returns the client.
BindRead ==
    /\ pc = "bind_read"
    /\ \/ /\ srvEOF' = TRUE
          /\ InitFails("Protocol", "unmarshal <iq>", wire)
       \/ /\ ~srvEOF
          /\ UNCHANGED srvEOF
          /\ \/ InitFails("Protocol", "unmarshal <iq>", wire)
             \/ \E el \in Elements :
                   IF IQOK(el)
                   THEN \E j \in Jids :
                          IF BindMissing(j)
                          THEN InitFails("Bind", "<iq> result missing <bind>",
                                         Logged("r", el, j))
                          ELSE /\ jid' = j
                               /\ wire' = Logged("r", el, j)
                                    \o SessionWrites(opts, IsEncrypted)
                                    \o << Ev("w", "presence", "", IsEncrypted) >>
                               /\ result' = "ok"
                               /\ pc' = "ready"
                               /\ UNCHANGED <<opts, others, ret, sock, tlsLayers, f, mechanism,
                                              err, spin, recvResult>>
                   ELSE InitFails("Protocol", "unmarshal <iq>", Logged("e", el, ""))

----------------------------------------------------------------------------
(* Session operations on the returned Client *)

\* Recv returns v to its caller; a is what next has read by then.
RecvReturns(v, a) ==
    /\ recvResult' = v.kind
    /\ delivered' = Append(delivered, v)
    /\ arrived' = a
    /\ pc' = "ready"
    /\ spin' = 0
    /\ UNCHANGED <<opts, pureVars, ret, sock, tlsLayers, wire, f, mechanism, jid, result,
                   err>>

\* A call of Client.Recv. The model follows a session up to the first error
\* that Recv returns.
RecvCall ==
    /\ pc = "ready"
    /\ recvResult # "err"
    /\ pc' = "recv"
    /\ recvResult' = "none"
    /\ UNCHANGED <<opts, others, ret, sock, tlsLayers, wire, f, mechanism, jid, result,
                   err, srvEOF, spin>>

\* Recv: one round of its loop: next, then the type switch. A read on a closed
\* connection is an error; the end of the stream is as in AuthResult. A value
\* that is neither a *clientMessage nor a *clientPresence matches no case and
\* the loop goes round.
RecvStep ==
    /\ pc = "recv"
    /\ \/ /\ sock = "closed"
          /\ RecvReturns(RecvError("use of closed network connection"), arrived)
          /\ UNCHANGED srvEOF
       \/ /\ sock = "open"
          /\ srvEOF' = TRUE
          /\ \/ Loops
             \/ RecvReturns(RecvError("unexpected EOF"), arrived)
       \/ /\ sock = "open"
          /\ ~srvEOF
          /\ UNCHANGED srvEOF
          /\ \/ Loops
             \/ RecvReturns(RecvError("read"), arrived)
             \/ /\ Len(arrived) < MaxStanzas
                /\ \E v \in Stanzas :
                      IF v.el \notin NextTable
                      THEN RecvReturns(RecvError(UnexpectedMsg(v.el)), Append(arrived, v))
                      ELSE IF ~NextDecodes(v.el)
                      THEN RecvReturns(RecvError("non-pointer passed to Unmarshal"),
                                       Append(arrived, v))
                      ELSE IF v.el = "message"
                      THEN RecvReturns(ToChat(v), Append(arrived, v))
                      ELSE IF v.el = "presence"
                      THEN RecvReturns(ToPresence(v), Append(arrived, v))
                      ELSE /\ arrived' = Append(arrived, v)
                           /\ spin' = 1 - spin
                           /\ UNCHANGED <<opts, pureVars, pc, ret, sock, tlsLayers,
                                          wire, f, mechanism, jid, result, err,
                                          recvResult, delivered>>

----------------------------------------------------------------------------
(* The text of the writes: the strings of the caller that go into the XML *)

\* Length of the longest string tried.
MaxLen == 2

\* The characters of the strings tried: a letter and the five of xmlSpecial.
Alphabet == { "a", "<", ">", "&", "\"", "'" }

Strings == UNION { [1..n -> Alphabet] : n \in 0..MaxLen }

\* Chat.Type as the caller may set it.
ChatTypes == { << "a" >>, << "'" >>, << "<", "&" >> }

\* The map xmlSpecial.
xmlSpecial(c) ==
    CASE c = "<" -> << "&", "l", "t", ";" >>
      [] c = ">" -> << "&", "g", "t", ";" >>
      [] c = "\"" -> << "&", "q", "u", "o", "t", ";" >>
      [] c = "'" -> << "&", "a", "p", "o", "s", ";" >>
      [] c = "&" -> << "&", "a", "m", "p", ";" >>
      [] OTHER -> << c >>

\* xmlEscape: byte by byte, the entity for a byte of xmlSpecial, else the byte.
RECURSIVE xmlEscape(_)
xmlEscape(s) ==
    IF s = << >> THEN << >>
    ELSE xmlSpecial(Head(s)) \o xmlEscape(Tail(s))

\* A string passed to fmt.Fprintf for a %s as it is.
Verbatim(s) == s

\* One string of the caller in a write: the place (an attribute value in single
\* quotes or element content), the string, the characters written for it.
Field(site, ctx, s, text) == [ site |-> site, ctx |-> ctx, payload |-> s, text |-> text ]

\* One call is followed (NoneYet): what a write puts out does not depend on the
\* writes before it.
NoneYet == written = << >>

Wrote(fields) ==
    /\ written' = fields
    /\ UNCHANGED <<mainVars, sessionVars, dial, digest, reader>>

\* Client.Send.
Send ==
    /\ NoneYet
    /\ \E remote \in Strings, type \in ChatTypes, text \in Strings :
        Wrote(<< Field("Send.Remote", "attr", remote, xmlEscape(remote)),
                 Field("Send.Type", "attr", type, xmlEscape(type)),
                 Field("Send.Text", "content", text, xmlEscape(text)) >>)

\* Client.JoinMUC.
JoinMUC ==
    /\ NoneYet
    /\ \E j \in Strings : Wrote(<< Field("JoinMUC.jid", "attr", j, xmlEscape(j)) >>)

\* Client.LeaveMUC.
LeaveMUC ==
    /\ NoneYet
    /\ \E j \in Strings : Wrote(<< Field("LeaveMUC.jid", "attr", j, xmlEscape(j)) >>)

\* Client.ChangeStatus.
ChangeStatus ==
    /\ NoneYet
    /\ \E show \in Strings, status \in Strings :
        Wrote(<< Field("ChangeStatus.show", "content", show, xmlEscape(show)),
                 Field("ChangeStatus.status", "content", status, xmlEscape(status)) >>)

\* startStream: the stream header.
WriteStreamHeader ==
    /\ NoneYet
    /\ \E domain \in Strings :
        Wrote(<< Field("stream.to", "attr", domain, xmlEscape(domain)) >>)

\* init: the bind IQ; with o.Resource empty no <resource> is written.
WriteBind ==
    /\ NoneYet
    /\ \E resource \in Strings :
        IF resource = << >>
        THEN Wrote(<< >>)
        ELSE Wrote(<< Field("bind.resource", "content", resource, Verbatim(resource)) >>)

\* init: the session IQ.
WriteSession ==
    /\ NoneYet
    /\ \E domain \in Strings :
        Wrote(<< Field("session.to", "attr", domain, xmlEscape(domain)) >>)

\* init: the initial presence.
WritePresence ==
    /\ NoneYet
    /\ \E status \in Strings, message \in Strings :
        Wrote(<< Field("presence.show", "content", status, Verbatim(status)),
                 Field("presence.status", "content", message, Verbatim(message)) >>)

----------------------------------------------------------------------------

(* saslDigestResponse *)

\* A string is the sequence of its bytes. A 32-bit word of MD5 is the pair of
\* its high and its low 16 bits. An operator that uses an argument more than
\* once is the application of a function, which takes its arguments as values.
Word == Nat \X Nat

Bytes == Seq(Nat)

Bit(x, k) == (x \div 2^k) % 2

\* The bitwise and of two numbers below 16, and of two below 65536.
And4(x, y) ==
    Bit(x, 0) * Bit(y, 0) + 2 * Bit(x, 1) * Bit(y, 1) + 4 * Bit(x, 2) * Bit(y, 2)
      + 8 * Bit(x, 3) * Bit(y, 3)

And16(x, y) ==
    And4(x % 16, y % 16) + 16 * And4((x \div 16) % 16, (y \div 16) % 16)
      + 256 * And4((x \div 256) % 16, (y \div 256) % 16)
      + 4096 * And4(x \div 4096, y \div 4096)

WAnd(a, b) ==
    [ x \in Word, y \in Word |-> << And16(x[1], y[1]), And16(x[2], y[2]) >> ][a, b]

WOr(a, b) ==
    [ x \in Word, y \in Word |->
        << x[1] + y[1] - And16(x[1], y[1]), x[2] + y[2] - And16(x[2], y[2]) >> ][a, b]

WXor(a, b) ==
    [ x \in Word, y \in Word |->
        << x[1] + y[1] - 2 * And16(x[1], y[1]), x[2] + y[2] - 2 * And16(x[2], y[2]) >> ][a, b]

WNot(a) == [ x \in Word |-> << 65535 - x[1], 65535 - x[2] >> ][a]

\* Addition modulo 2^32.
WAdd(a, b) ==
    [ x \in Word, y \in Word |->
        << (x[1] + y[1] + ((x[2] + y[2]) \div 65536)) % 65536, (x[2] + y[2]) % 65536 >> ][a, b]

\* Rotation to the left by s bits, 0 < s < 32.
WRotl(a, s) ==
    [ x \in Word |->
        LET w == IF s >= 16 THEN << x[2], x[1] >> ELSE x
            r == s % 16
        IN  IF r = 0 THEN w
            ELSE << ((w[1] * 2^r) % 65536) + (w[2] \div 2^(16 - r)),
                    ((w[2] * 2^r) % 65536) + (w[1] \div 2^(16 - r)) >> ][a]

\* crypto/md5: the sine table and the shift amounts of the 64 steps.
MD5Table ==
    << <<55146, 42104>>, <<59591, 46934>>, <<9248, 28891>>, <<49597, 52974>>,
       <<62844, 4015>>, <<18311, 50730>>, <<43056, 17939>>, <<64838, 38145>>,
       <<27008, 39128>>, <<35652, 63407>>, <<65535, 23473>>, <<35164, 55230>>,
       <<27536, 4386>>, <<64920, 29075>>, <<42617, 17294>>, <<18868, 2081>>,
       <<63006, 9570>>, <<49216, 45888>>, <<9822, 23121>>, <<59830, 51114>>,
       <<54831, 4189>>, <<580, 5203>>, <<55457, 59009>>, <<59347, 64456>>,
       <<8673, 52710>>, <<49975, 2006>>, <<62677, 3463>>, <<17754, 5357>>,
       <<43491, 59653>>, <<64751, 41976>>, <<26479, 729>>, <<36138, 19594>>,
       <<65530, 14658>>, <<34673, 63105>>, <<28061, 24866>>, <<64997, 14348>>,
       <<42174, 59972>>, <<19422, 53161>>, <<63163, 19296>>, <<48831, 48240>>,
       <<10395, 32454>>, <<60065, 10234>>, <<54511, 12421>>, <<1160, 7429>>,
       <<55764, 53305>>, <<59099, 39397>>, <<8098, 31992>>, <<50348, 22117>>,
       <<62505, 8772>>, <<17194, 65431>>, <<43924, 9127>>, <<64659, 41017>>,
       <<25947, 22979>>, <<36620, 52370>>, <<65519, 62589>>, <<34180, 24017>>,
       <<28584, 32335>>, <<65068, 59104>>, <<41729, 17172>>, <<19976, 4513>>,
       <<63315, 32386>>, <<48442, 62005>>, <<10967, 53947>>, <<60294, 54161>> >>

MD5Shifts ==
    << 7, 12, 17, 22, 7, 12, 17, 22, 7, 12, 17, 22, 7, 12, 17, 22,
       5, 9, 14, 20, 5, 9, 14, 20, 5, 9, 14, 20, 5, 9, 14, 20,
       4, 11, 16, 23, 4, 11, 16, 23, 4, 11, 16, 23, 4, 11, 16, 23,
       6, 10, 15, 21, 6, 10, 15, 21, 6, 10, 15, 21, 6, 10, 15, 21 >>

\* The state a digest starts from.
MD5Start == << << 26437, 8961 >>, << 61389, 43913 >>, << 39098, 56574 >>, << 4146, 21622 >> >>

\* Word g (from 0) of a 64-byte block, little-endian.
BlockWord(blk, g) ==
    << blk[4 * g + 3] + 256 * blk[4 * g + 4], blk[4 * g + 1] + 256 * blk[4 * g + 2] >>

\* Step i (from 0) of the block function on the state st = <<a, b, c, d>>.
MD5Step(i, st, blk) ==
    [ s \in Word \X Word \X Word \X Word |->
        LET a == s[1]
            b == s[2]
            c == s[3]
            d == s[4]
            fn == IF i < 16 THEN WOr(WAnd(b, c), WAnd(WNot(b), d))
                  ELSE IF i < 32 THEN WOr(WAnd(d, b), WAnd(WNot(d), c))
                  ELSE IF i < 48 THEN WXor(b, WXor(c, d))
                  ELSE WXor(c, WOr(b, WNot(d)))
            g == IF i < 16 THEN i
                 ELSE IF i < 32 THEN (5 * i + 1) % 16
                 ELSE IF i < 48 THEN (3 * i + 5) % 16
                 ELSE (7 * i) % 16
            sum == WAdd(WAdd(fn, a), WAdd(MD5Table[i + 1], BlockWord(blk, g)))
        IN  << d, WAdd(b, WRotl(sum, MD5Shifts[i + 1])), b, c >> ][st]

\* Steps lo .. hi - 1 in order.
RECURSIVE MD5Steps(_, _, _, _)
MD5Steps(lo, hi, st, blk) ==
    IF hi = lo + 1 THEN MD5Step(lo, st, blk)
    ELSE [ half \in Word \X Word \X Word \X Word |->
             MD5Steps((lo + hi) \div 2, hi, half, blk) ][MD5Steps(lo, (lo + hi) \div 2, st, blk)]

MD5Block(st, blk) ==
    [ s \in Word \X Word \X Word \X Word, b \in Bytes |->
        [ r \in Word \X Word \X Word \X Word |->
            << WAdd(s[1], r[1]), WAdd(s[2], r[2]), WAdd(s[3], r[3]), WAdd(s[4], r[4]) >>
        ][MD5Steps(0, 64, s, b)] ][st, blk]

RECURSIVE MD5Blocks(_, _)
MD5Blocks(st, bytes) ==
    [ s \in Word \X Word \X Word \X Word, b \in Bytes |->
        IF b = << >> THEN s
        ELSE MD5Blocks(MD5Block(s, SubSeq(b, 1, 64)), SubSeq(b, 65, Len(b))) ][st, bytes]

\* The message with its padding: 0x80, zeros up to 56 modulo 64, the length in
\* bits as 8 bytes, little-endian (the messages here are shorter than 8192 bytes).
MD5Padded(msg) ==
    [ m \in Bytes |->
        m \o << 128 >> \o [ k \in 1..((55 - Len(m)) % 64) |-> 0 ]
          \o << (8 * Len(m)) % 256, (8 * Len(m)) \div 256, 0, 0, 0, 0, 0, 0 >> ][msg]

WordBytes(w) ==
    [ x \in Word |-> << x[2] % 256, x[2] \div 256, x[1] % 256, x[1] \div 256 >> ][w]

\* md5.New, Write, Sum(nil): the 16 bytes of the digest.
MD5(msg) ==
    [ st \in Word \X Word \X Word \X Word |->
        WordBytes(st[1]) \o WordBytes(st[2]) \o WordBytes(st[3]) \o WordBytes(st[4])
    ][MD5Blocks(MD5Start, MD5Padded(msg))]

\* ":" and ":auth:".
Colon == << 58 >>

ColonAuth == << 58, 97, 117, 116, 104, 58 >>

\* The closures of saslDigestResponse.
h(text) == MD5(text)

HexDigit(n) == IF n < 10 THEN 48 + n ELSE 87 + n

\* fmt.Sprintf("%x", bytes).
hex(bytes) ==
    [ b \in Bytes |->
        [ k \in 1..(2 * Len(b)) |->
            IF k % 2 = 1 THEN HexDigit(b[(k + 1) \div 2] \div 16)
            ELSE HexDigit(b[k \div 2] % 16) ] ][bytes]

kd_plain(secret, data) == h(secret \o data)

kd(secret, data) == h(secret \o Colon \o data)

saslDigestResponse(username, realm, passwd, nonce, cnonceStr, authenticate, digestUri, nonceCountStr) ==
    LET a1 == h(username \o Colon \o realm \o Colon \o passwd) \o Colon \o nonce
                \o Colon \o cnonceStr
        a2 == authenticate \o Colon \o digestUri
    IN  hex(kd(hex(h(a1)),
               nonce \o Colon \o nonceCountStr \o Colon \o cnonceStr \o ColonAuth
                 \o hex(h(a2))))

\* The arguments tried: those of the example of RFC 2831 (chris,
\* elwood.innosoft.com, secret, OA6MG9tEQGm2hh, OA6MHXh6VqTrRk, AUTHENTICATE,
\* imap/elwood.innosoft.com, 00000001) and, for each but authenticate, one
\* other value (bob, d, sesame, n, c, xmpp/d, 00000002).
DigestArgs ==
    [ username : { << 99, 104, 114, 105, 115 >>,
                   << 98, 111, 98 >> },
      realm : { << 101, 108, 119, 111, 111, 100, 46, 105, 110, 110, 111, 115, 111, 102, 116, 46, 99, 111, 109 >>,
                << 100 >> },
      passwd : { << 115, 101, 99, 114, 101, 116 >>,
                 << 115, 101, 115, 97, 109, 101 >> },
      nonce : { << 79, 65, 54, 77, 71, 57, 116, 69, 81, 71, 109, 50, 104, 104 >>,
                << 110 >> },
      cnonceStr : { << 79, 65, 54, 77, 72, 88, 104, 54, 86, 113, 84, 114, 82, 107 >>,
                    << 99 >> },
      authenticate : { << 65, 85, 84, 72, 69, 78, 84, 73, 67, 65, 84, 69 >> },
      digestUri : { << 105, 109, 97, 112, 47, 101, 108, 119, 111, 111, 100, 46, 105, 110, 110, 111, 115, 111, 102, 116, 46, 99, 111, 109 >>,
                    << 120, 109, 112, 112, 47, 100 >> },
      nonceCountStr : { << 48, 48, 48, 48, 48, 48, 48, 49 >>,
                        << 48, 48, 48, 48, 48, 48, 48, 50 >> } ]

\* A call of saslDigestResponse.
DigestCall ==
    /\ ~digest.called
    /\ \E in \in DigestArgs :
          digest' = [ called |-> TRUE, in |-> in,
                      response |-> saslDigestResponse(in.username, in.realm, in.passwd,
                                                      in.nonce, in.cnonceStr,
                                                      in.authenticate, in.digestUri,
                                                      in.nonceCountStr) ]
    /\ UNCHANGED <<mainVars, sessionVars, written, dial, reader>>

----------------------------------------------------------------------------
(* The decoders of one connection *)

\* Number of bytes the server sends in the runs followed.
MaxBytes == 3

\* What a byte of the server is to init: the last byte of the <proceed/> that
\* startTlsIfRequired decodes, the last byte of the <success/> that init
\* decodes, any other byte.
ByteKinds == { "proceed", "success", "other" }

\* The server sends one more byte.
ServerSend ==
    /\ Len(reader.stream) < MaxBytes
    /\ \E k \in ByteKinds :
          reader' = [ reader EXCEPT !.stream = Append(@, k),
                                    !.inflight = Append(@, Len(reader.stream) + 1) ]
    /\ UNCHANGED <<mainVars, sessionVars, written, dial, digest>>

\* The decoder needs a byte and its buffer is empty: one Read of c.conn, which
\* returns any non-empty prefix of what has arrived.
Fill ==
    /\ reader.phase # "handshake"
    /\ reader.buf = << >>
    /\ reader.inflight # << >>
    /\ \E n \in 1..Len(reader.inflight) :
          reader' = [ reader EXCEPT !.buf = SubSeq(reader.inflight, 1, n),
                                    !.inflight = SubSeq(@, n + 1, Len(@)) ]
    /\ UNCHANGED <<mainVars, sessionVars, written, dial, digest>>

\* The element that ends with the byte of kind k makes init replace c.p:
\* <success/> is followed by startStream; <proceed/> by tls.Client over c.conn,
\* the handshake and then startStream.
Restarts(phase, k) ==
    \/ phase = "plain" /\ k = "proceed"
    \/ phase \in { "plain", "tls" } /\ k = "success"

\* The decoder takes the next byte of its buffer. After the last byte of
\* <success/> startStream makes a new decoder: what the old one had buffered
\* goes with it. After the last byte of <proceed/> the handshake begins.
Decode ==
    /\ reader.phase # "handshake"
    /\ reader.buf # << >>
    /\ LET b == Head(reader.buf)
           k == reader.stream[b]
           taken == Append(reader.consumed, << b, reader.phase >>)
       IN  IF Restarts(reader.phase, k) /\ k = "success"
           THEN reader' = [ reader EXCEPT !.phase = "postauth",
                                          !.consumed = taken,
                                          !.lost = @ \o Tail(reader.buf),
                                          !.buf = << >> ]
           ELSE IF Restarts(reader.phase, k)
           THEN reader' = [ reader EXCEPT !.phase = "handshake",
                                          !.consumed = taken,
                                          !.buf = Tail(@) ]
           ELSE reader' = [ reader EXCEPT !.consumed = taken, !.buf = Tail(@) ]
    /\ UNCHANGED <<mainVars, sessionVars, written, dial, digest>>

\* t.Handshake: the tls.Conn reads c.conn itself.
Handshake ==
    /\ reader.phase = "handshake"
    /\ reader.inflight # << >>
    /\ reader' = [ reader EXCEPT !.consumed = Append(@, << Head(reader.inflight), "handshake" >>),
                                 !.inflight = Tail(@) ]
    /\ UNCHANGED <<mainVars, sessionVars, written, dial, digest>>

\* The handshake is over: c.conn = t and startStream makes a new decoder over
\* it; what the old one had buffered goes with it.
HandshakeDone ==
    /\ reader.phase = "handshake"
    /\ reader' = [ reader EXCEPT !.phase = "tls", !.lost = @ \o reader.buf, !.buf = << >> ]
    /\ UNCHANGED <<mainVars, sessionVars, written, dial, digest>>

----------------------------------------------------------------------------
(* connect: the address *)

\* The characters of the hosts tried.
HostAlphabet == { "h", ":", "9", " " }

Hosts == UNION { [1..n -> HostAlphabet] : n \in 0..MaxLen }

\* HTTP_PROXY: unset, or a URL with the host "p".
Proxies == { << >>, << "p" >> }

\* strings.TrimSpace(s) == "".
RECURSIVE IsBlank(_)
IsBlank(s) == s = << >> \/ (Head(s) = " " /\ IsBlank(Tail(s)))

\* connect: the value of its variable host when the proxy is looked up: the
\* domain of the user for a blank host, ":5222" added to a host without ":".
ConnectHost(host, user) ==
    LET a == SplitN2(user, "@")
        named == IF IsBlank(host) /\ Len(a) = 2 THEN a[2] ELSE host
    IN  IF Len(SplitN2(named, ":")) = 1 THEN named \o << ":", "5", "2", "2", "2" >>
        ELSE named

\* connect: the value of its variable addr at net.Dial: set from the argument
\* host in the first statement, set again only to the host of the proxy URL.
DialAddr(host, user, proxy) ==
    IF proxy # << >> THEN proxy ELSE host

\* connect up to net.Dial.
Dial ==
    /\ ~dial.called
    /\ \E host \in Hosts, user \in UsersTried, proxy \in Proxies :
          dial' = [ called |-> TRUE, host |-> host, user |-> user, proxy |-> proxy,
                    addr |-> DialAddr(host, user, proxy) ]
    /\ UNCHANGED <<mainVars, sessionVars, written, digest, reader>>

\* With a proxy, the CONNECT request names ConnectHost.
ProxyConnect ==
    /\ dial.called
    /\ dial.proxy # << >>
    /\ written = << >>
    /\ written' = << Field("CONNECT", "line", dial.host, ConnectHost(dial.host, dial.user)) >>
    /\ UNCHANGED <<mainVars, sessionVars, dial, digest, reader>>

----------------------------------------------------------------------------

\* Client.Close.
Close ==
    /\ pc \in { "ready", "recv" }
    /\ sock = "open"
    /\ sock' = "closed"
    /\ UNCHANGED <<opts, others, pc, ret, tlsLayers, wire, f, mechanism, jid, result, err,
                   srvEOF, spin, recvResult>>

----------------------------------------------------------------------------
(* Specifications *)

Next ==
    \/ Connect
    \/ InitialTLS
    \/ InitUser
    \/ StreamWrite
    \/ StreamStart
    \/ StreamFeatures
    \/ TlsSwitch
    \/ TlsProceed
    \/ TlsHandshake
    \/ Policy
    \/ SelectMechanism
    \/ DigestChallenge
    \/ DigestRspAuth
    \/ AuthResult
    \/ BindRead
    \/ Close

Spec == Init /\ [][Next]_vars

\* The client's goroutine keeps running: a step that can be taken is taken.
FairSpec == Spec /\ WF_vars(Next)

\* The session: a run taken up where init, over the TLS connection made by
\* NewClient, has written <auth mechanism='PLAIN'> for the features
\* <mechanisms><mechanism>PLAIN</mechanism></mechanisms>, and followed through
\* the rest of init into the calls of Recv and Close.
SessionInit ==
    /\ opts \in { o \in OptionsSet : /\ o.User = << "u", "@", "d" >>
                                     /\ ~o.NoTLS
                                     /\ ~o.StartTLS
                                     /\ ~o.InsecureAllowUnencryptedAuth }
    /\ pc = "auth_result"
    /\ ret = "init"
    /\ sock = "open"
    /\ tlsLayers = InitialLayers(opts)
    /\ wire = << Ev("x", "handshake", "initial", TRUE),
                 Ev("w", "stream", "", TRUE),
                 Ev("r", "stream", "", TRUE),
                 FeaturesEv("features", "nil", TRUE, "PLAIN"),
                 Ev("w", "auth", "PLAIN", TRUE) >>
    /\ f = [ StartTLS |-> "nil", Mechanisms |-> << "PLAIN" >> ]
    /\ mechanism = "PLAIN"
    /\ jid = ""
    /\ result = "running"
    /\ err = NoErr
    /\ srvEOF = FALSE
    /\ spin = 0
    /\ recvResult = "none"
    /\ arrived = << >>
    /\ delivered = << >>
    /\ PureIdle

SessionNext ==
    \/ AuthResult
    \/ StreamWrite
    \/ StreamStart
    \/ StreamFeatures
    \/ BindRead
    \/ RecvCall
    \/ RecvStep
    \/ Close

SessionSpec == SessionInit /\ [][SessionNext]_vars

\* NewClient on the user strings of UsersTried.
UserInit ==
    \E o \in [ User : UsersTried, NoTLS : BOOLEAN, StartTLS : { FALSE },
                InsecureAllowUnencryptedAuth : { TRUE }, Session : { FALSE } ] : Start(o)

UserSpec == UserInit /\ [][Next]_vars

\* The options the functions modelled on their own start from.
DefaultOptions ==
    [ User |-> << "u", "@", "d" >>, NoTLS |-> FALSE, StartTLS |-> FALSE,
      InsecureAllowUnencryptedAuth |-> FALSE, Session |-> FALSE ]

\* The writes that carry strings of the caller, each for any such string.
EscapeInit == Start(DefaultOptions)

EscapeNext ==
    \/ Send
    \/ JoinMUC
    \/ LeaveMUC
    \/ ChangeStatus
    \/ WriteStreamHeader
    \/ WriteBind
    \/ WriteSession
    \/ WritePresence

EscapeSpec == EscapeInit /\ [][EscapeNext]_vars

\* connect on any host, user and proxy setting.
AddrNext ==
    \/ Dial
    \/ ProxyConnect

AddrSpec == EscapeInit /\ [][AddrNext]_vars

\* saslDigestResponse on the arguments of DigestArgs.
DigestNext == DigestCall

DigestSpec == EscapeInit /\ [][DigestNext]_vars

\* One connection: the server sends, the decoders and the handshake read.
ReaderNext == ServerSend \/ Fill \/ Decode \/ Handshake \/ HandshakeDone

ReaderSpec == EscapeInit /\ [][ReaderNext]_vars

----------------------------------------------------------------------------
(* Reading the wire *)

IsW(i, el) == wire[i].dir = "w" /\ wire[i].el = el

IsR(i, el) == wire[i].dir = "r" /\ wire[i].el = el

\* A TLS handshake that succeeded: "initial" (NewClient) or "starttls".
IsX(i, which) == wire[i].dir = "x" /\ wire[i].arg = which

Written(el) == { i \in 1..Len(wire) : IsW(i, el) }

\* The SASL payloads the client has written.
AuthPayloads == Written("auth") \cup Written("response")

FeaturesRead == { i \in 1..Len(wire) : IsR(i, "features") }

\* Position on the wire of the features of the first stream open, 0 before.
FirstFeatures ==
    IF FeaturesRead = {} THEN 0
    ELSE CHOOSE i \in FeaturesRead : \A j \in FeaturesRead : i <= j

\* The STARTTLS offer of the first features: "nil", "optional", "required";
\* "unread" before they are read.
FirstOffer == IF FirstFeatures = 0 THEN "unread" ELSE wire[FirstFeatures].arg

\* Positions of init between the refusal test and the end of the SASL exchange.
AuthPhase == { "mech", "digest_ch1", "digest_ch2", "auth_result" }

----------------------------------------------------------------------------
(* Claims *)

\* C1: with InsecureAllowUnencryptedAuth false, every <auth> and <response> on
\* the wire was written over TLS; init is never in the SASL exchange on a
\* transport that is not TLS, because the refusal test comes first and ends
\* construction with the refusal error, nothing of SASL written.
C1_NoAuthInTheClear ==
    ~opts.InsecureAllowUnencryptedAuth =>
        /\ \A i \in AuthPayloads : wire[i].enc
        /\ pc \in AuthPhase => IsEncrypted
        /\ (result = "ok" /\ AuthPayloads # {}) => IsEncrypted
        /\ err.kind = "AuthPolicy" =>
               /\ result = "err"
               /\ ~IsEncrypted
               /\ AuthPayloads = {}

\* C1 witness: the refusal happened, after the features of a plain stream.
C1_Witness ==
    /\ ~opts.InsecureAllowUnencryptedAuth
    /\ result = "err"
    /\ err.kind = "AuthPolicy"
    /\ FirstFeatures # 0

\* C2: <starttls/> is written if and only if the first features offer STARTTLS
\* and the server requires it or o.StartTLS is set; with an optional offer and
\* o.StartTLS false init goes to the refusal test and the mechanisms without it.
C2_StartTLSOnlyWhenWanted ==
    LET wanted == /\ FirstOffer \in { "optional", "required" }
                  /\ FirstOffer = "required" \/ opts.StartTLS
    IN  /\ Written("starttls") # {} => wanted
        /\ (wanted /\ pc # "tls_switch") => Written("starttls") # {}

\* C3: when the first features require STARTTLS, the next thing on the wire is
\* <starttls/>, whatever o.StartTLS is; the STARTTLS handshake comes right
\* after <proceed/> was read in answer to <starttls/>; after <starttls/> a
\* stream open or an <auth> is written only with that handshake done; and when
\* the answer to <starttls/> is another element, construction has failed with
\* nothing more on the wire and no handshake.
C3_RequiredStartTLS ==
    /\ FirstOffer = "required" =>
          IF Len(wire) > FirstFeatures
          THEN IsW(FirstFeatures + 1, "starttls")
          ELSE pc = "tls_switch"
    /\ \A i \in 1..Len(wire) :
          IsX(i, "starttls") =>
              /\ i > 2
              /\ IsR(i - 1, "proceed")
              /\ IsW(i - 2, "starttls")
    /\ \A j \in Written("starttls") :
          \A i \in (j + 1)..Len(wire) :
              (IsW(i, "stream") \/ IsW(i, "auth")) =>
                  \E k \in (j + 1)..(i - 1) : IsX(k, "starttls")
    /\ \A j \in Written("starttls") :
          (Len(wire) > j /\ wire[j + 1].dir \in { "r", "e" }
             /\ wire[j + 1].el # "proceed") =>
              /\ result = "err"
              /\ Len(wire) = j + 1
              /\ \A k \in 1..Len(wire) : ~IsX(k, "starttls")
              /\ IsEncrypted = ~opts.NoTLS

\* C3 witness: STARTTLS required, o.StartTLS false, handshake done and the
\* stream reopened over TLS.
C3_Witness ==
    /\ FirstOffer = "required"
    /\ ~opts.StartTLS
    /\ \E i \in 1..Len(wire) : IsX(i, "starttls")
    /\ pc = "ss_start"
    /\ ret = "starttls"

\* C4: a Client returned under NoTLS = false is encrypted, and from a
\* successful TLS handshake on (initial or STARTTLS) IsEncrypted is true in
\* every state: c.conn is never a plain connection again.
C4_EncryptedStays ==
    /\ (result = "ok" /\ ~opts.NoTLS) => IsEncrypted
    /\ (\E i \in 1..Len(wire) : wire[i].dir = "x") => IsEncrypted

\* C4 witness: a Client returned under NoTLS = false after a STARTTLS on top
\* of the initial TLS, then closed.
C4_Witness ==
    /\ result = "ok"
    /\ ~opts.NoTLS
    /\ \E i \in 1..Len(wire) : IsX(i, "starttls")
    /\ sock = "closed"
    /\ IsEncrypted

\* C5 as stated: under NoTLS with InsecureAllowUnencryptedAuth false, whatever
\* the server does, construction does not succeed and no <auth> is written.
\* Runs in which the server makes an optional offer that o.StartTLS does not
\* take up are left out, so that the STARTTLS decision of C2 plays no part.
C5_AlwaysRefused ==
    (/\ opts.NoTLS
     /\ ~opts.InsecureAllowUnencryptedAuth
     /\ ~(FirstOffer = "optional" /\ ~opts.StartTLS)) =>
        /\ Written("auth") = {}
        /\ result # "ok"

\* C5 amended: under NoTLS with InsecureAllowUnencryptedAuth false, when the
\* first features offer no STARTTLS construction fails with the refusal error,
\* nothing written after those features; an <auth> is written only after a
\* STARTTLS handshake succeeded, and a Client is returned only over TLS.
C5_RefusedWithoutStartTLS ==
    (opts.NoTLS /\ ~opts.InsecureAllowUnencryptedAuth) =>
        /\ FirstOffer = "nil" =>
              /\ Len(wire) = FirstFeatures
              /\ pc \in { "tls_switch", "policy", "done" }
              /\ pc = "done" => (result = "err" /\ err.kind = "AuthPolicy")
        /\ \A i \in Written("auth") :
              /\ wire[i].enc
              /\ \E k \in 1..(i - 1) : IsX(k, "starttls")
        /\ result = "ok" => IsEncrypted

\* C5 witness: NoTLS, no STARTTLS offered, construction refused.
C5_Witness ==
    /\ opts.NoTLS
    /\ ~opts.InsecureAllowUnencryptedAuth
    /\ FirstOffer = "nil"
    /\ result = "err"
    /\ err.kind = "AuthPolicy"

\* C6: when NewClient returns an error and connect had dialled, the connection
\* is closed; a Client is returned only with the initial presence written.
C6_ClosedOnError ==
    /\ (result = "err" /\ sock # "none") => sock = "closed"
    /\ result = "ok" => (pc \in { "ready", "recv" } /\ Written("presence") # {})

\* C7: a returned Client has a non-empty jid, the <jid> of the reply to the
\* bind IQ; a reply without <bind> or <jid> makes construction fail with the
\* bind error.
C7_JidFromBind ==
    LET replies == { i \in 2..Len(wire) :
                         /\ wire[i].el = "iq"
                         /\ wire[i].dir \in { "r", "e" }
                         /\ IsW(i - 1, "iq") }
    IN  /\ result = "ok" =>
              /\ jid # ""
              /\ \E i \in replies : wire[i].arg = jid
        /\ \A i \in replies :
              wire[i].arg = "" => (result = "err" /\ err.kind = "Bind")

\* The mechanisms init implements.
Supported == { "ANONYMOUS", "PLAIN", "DIGEST-MD5" }

\* C8: at most one <auth> is ever written; none before the mechanism loop;
\* after the loop there is exactly one, naming the first advertised mechanism,
\* in the server's order, that init implements; when the server advertises no
\* such mechanism construction fails with no <auth> written.
C8_FirstSupported ==
    LET ms == f.Mechanisms
        sup == { i \in 1..Len(ms) : ms[i] \in Supported }
        first == CHOOSE i \in sup : \A j \in sup : i <= j
    IN  /\ Cardinality(Written("auth")) <= 1
        /\ pc \in { "connect", "tlsinit", "init", "tls_switch", "tls_proceed",
                     "tls_handshake", "policy", "mech" } => Written("auth") = {}
        /\ pc \in AuthPhase \ { "mech" } =>
              /\ sup # {}
              /\ \E i \in Written("auth") : wire[i].arg = ms[first]
              /\ mechanism = ms[first]
        /\ err.kind = "AuthMechanism" =>
              /\ result = "err"
              /\ sup = {}
              /\ Written("auth") = {}

\* C8 witness: the list starts with a mechanism init does not implement and
\* goes on with PLAIN, and <auth mechanism='PLAIN'> is on the wire.
C8_Witness ==
    /\ pc = "auth_result"
    /\ Len(f.Mechanisms) = 2
    /\ f.Mechanisms[1] \notin Supported
    /\ f.Mechanisms[2] = "PLAIN"
    /\ \E i \in Written("auth") : wire[i].arg = "PLAIN"

\* C9: a SASL <failure> read after the <auth> ends construction with the
\* auth-failure error naming the failure's child, and nothing is written
\* after it; the stream is reopened after an <auth> only when <success/> was
\* the element read just before.
C9_FailureEndsAuth ==
    /\ \A i \in 1..Len(wire) :
          (IsR(i, "saslfailure") /\ \E j \in Written("auth") : j < i) =>
              /\ Len(wire) = i
              /\ result = "err"
              /\ err.kind = "AuthFailed"
              /\ err.detail \in FailureConditions
    /\ \A i \in Written("stream") :
          (\E j \in Written("auth") : j < i) => IsR(i - 1, "success")

\* Positions at which the negotiator or Recv waits for the next element.
ReadingPcs ==
    { "ss_start", "ss_features", "tls_proceed", "digest_ch1", "digest_ch2",
      "auth_result", "bind_read", "recv" }

\* C10: once the transport has reported the end of the stream to a waiting
\* negotiator or Recv, the operation returns to its caller.
C10_EndOfStreamReturns ==
    (srvEOF /\ pc \in ReadingPcs) ~> (pc \in { "done", "ready" })

----------------------------------------------------------------------------
(* Recv *)

\* What a message or a presence is to be returned as.
AsEvent(v) ==
    IF v.el = "message"
    THEN [ kind |-> "chat", remote |-> v.from, type |-> v.type, text |-> v.body ]
    ELSE [ kind |-> "presence", from |-> v.from, to |-> v.to, type |-> v.type,
           show |-> v.show ]

\* The messages and presences of a sequence of elements, in order, as events.
RECURSIVE Expected(_)
Expected(seq) ==
    IF seq = << >> THEN << >>
    ELSE IF Head(seq).el \in { "message", "presence" }
    THEN << AsEvent(Head(seq)) >> \o Expected(Tail(seq))
    ELSE Expected(Tail(seq))

\* Positions of the error returns among the values returned.
RecvErrors == { i \in 1..Len(delivered) : delivered[i].kind = "err" }

\* Errors of the transport, as opposed to errors next raises about an element.
TransportDetails == { "use of closed network connection", "unexpected EOF", "read" }

\* Positions of the elements read that next does not turn into a value.
Undecoded == { i \in 1..Len(arrived) : arrived[i].el \notin NextTable \/ ~NextDecodes(arrived[i].el) }

\* C11 as stated: every element that is neither a message nor a presence is
\* skipped without an error, so no Recv call returns an error about an element
\* and, as long as the transport works, the values returned are exactly the
\* messages and presences read, in order. Sessions in which the server sends a
\* <challenge> are left out: next cannot decode that element at all.
C11_RecvSkipsAllOthers ==
    (\A i \in 1..Len(arrived) : arrived[i].el # "challenge") =>
        /\ \A i \in RecvErrors : delivered[i].detail \in TransportDetails
        /\ RecvErrors = {} => delivered = Expected(arrived)

\* C11 amended: up to the first error that Recv returns, the values returned are
\* exactly the messages and presences read, in stream order, as Chat (remote =
\* from, type, text = body) and Presence (from, to, type, show); an element that
\* next decodes and that is neither is skipped without an error, while an
\* element next does not decode ends the call with an error, nothing returned
\* for it; a call returns as soon as it has read its message or presence.
C11_RecvInOrderUntilError ==
    LET first(S) == CHOOSE i \in S : \A j \in S : i <= j
        clean == IF RecvErrors = {} THEN delivered
                 ELSE SubSeq(delivered, 1, first(RecvErrors) - 1)
        good == IF Undecoded = {} THEN arrived
                ELSE SubSeq(arrived, 1, first(Undecoded) - 1)
    IN  /\ clean = Expected(good)
        /\ RecvErrors \subseteq { Len(delivered) }
        /\ Undecoded \subseteq { Len(arrived) }
        /\ Undecoded # {} =>
              /\ RecvErrors # {}
              /\ delivered[Len(delivered)].detail \notin TransportDetails
        /\ (pc = "ready" /\ recvResult \in { "chat", "presence" }) =>
              /\ arrived # << >>
              /\ delivered[Len(delivered)] = AsEvent(arrived[Len(arrived)])

\* An <iq> was skipped and the message after it returned as a Chat.
C11_Witness ==
    /\ pc = "ready"
    /\ Len(arrived) = 2
    /\ arrived[1].el = "iq"
    /\ arrived[2].el = "message"
    /\ delivered = << [ kind |-> "chat", remote |-> "a@d", type |-> "chat", text |-> "hi" ] >>

----------------------------------------------------------------------------
(* Escaping *)

\* What a parser cannot read.
Malformed == << "#" >>

Cons(c, r) == IF r = Malformed THEN Malformed ELSE << c >> \o r

StartsWith(t, p) == Len(t) >= Len(p) /\ SubSeq(t, 1, Len(p)) = p

\* The five characters that have a named entity.
Special == { "<", ">", "&", "\"", "'" }

\* What an XML parser reads back from the characters t of an attribute value
\* in single quotes or of element content: an entity gives its character, a
\* bare & or < is not well-formed, a bare ' ends the attribute value early.
RECURSIVE Parsed(_, _)
Parsed(t, ctx) ==
    IF t = << >> THEN << >>
    ELSE IF Head(t) = "&"
    THEN IF \E c \in Special : StartsWith(t, xmlSpecial(c))
         THEN LET c == CHOOSE d \in Special : StartsWith(t, xmlSpecial(d))
              IN  Cons(c, Parsed(SubSeq(t, Len(xmlSpecial(c)) + 1, Len(t)), ctx))
         ELSE Malformed
    ELSE IF Head(t) = "<" THEN Malformed
    ELSE IF Head(t) = "'" /\ ctx = "attr" THEN Malformed
    ELSE Cons(Head(t), Parsed(Tail(t), ctx))

\* The characters of t outside entities.
RECURSIVE Bare_chars(_)
Bare_chars(t) ==
    IF t = << >> THEN {}
    ELSE IF \E c \in Special : StartsWith(t, xmlSpecial(c))
    THEN LET c == CHOOSE d \in Special : StartsWith(t, xmlSpecial(d))
         IN  Bare_chars(SubSeq(t, Len(xmlSpecial(c)) + 1, Len(t)))
    ELSE { Head(t) } \cup Bare_chars(Tail(t))

\* C12: every string of the caller placed in a write is escaped: what is
\* written for it holds <, >, &, " and ' only inside named entities, and a
\* parser reads the string back from it.
C12_AllEscaped ==
    \A i \in 1..Len(written) :
        /\ Bare_chars(written[i].text) \cap Special = {}
        /\ Parsed(written[i].text, written[i].ctx) = written[i].payload

----------------------------------------------------------------------------
(* The user string *)

\* C13: a user string without "@", or with nothing before the first "@", or
\* with nothing after it, makes construction fail with the invalid-user error,
\* and nothing is written to the connection for it.
C13_InvalidUserRejected ==
    LET at == IndexOf(opts.User, "@", 1)
        invalid == at = 0 \/ at = 1 \/ at = Len(opts.User)
    IN  invalid =>
            /\ \A i \in 1..Len(wire) : wire[i].dir # "w"
            /\ pc \notin { "connect", "tlsinit", "init" } =>
                  (result = "err" /\ err.kind \in { "InvalidUser", "Transport", "Proxy" })
            /\ (result = "err" /\ pc = "done" /\ err.kind \notin { "Transport", "Proxy" }) =>
                  err.kind = "InvalidUser"

----------------------------------------------------------------------------
(* The address dialled *)

\* C14: without a proxy the address dialled is the host if it has a port, the
\* host with ":5222" added if it is not empty and has no port, and the domain
\* of the user with ":5222" added if the host is empty.
C14_DialledAddress ==
    LET port == << ":", "5", "2", "2", "2" >>
        at == IndexOf(dial.user, "@", 1)
        domain == SubSeq(dial.user, at + 1, Len(dial.user))
    IN  (dial.called /\ dial.proxy = << >> /\ \A i \in 1..Len(dial.host) : dial.host[i] # " ") =>
            /\ IndexOf(dial.host, ":", 1) # 0 => dial.addr = dial.host
            /\ (dial.host # << >> /\ IndexOf(dial.host, ":", 1) = 0) =>
                  dial.addr = dial.host \o port
            /\ (dial.host = << >> /\ at # 0 /\ domain # << >> /\ IndexOf(domain, ":", 1) = 0) =>
                  dial.addr = domain \o port

----------------------------------------------------------------------------
(* The DIGEST-MD5 response *)

\* The arguments of the example of RFC 2831: chris, elwood.innosoft.com, secret,
\* OA6MG9tEQGm2hh, OA6MHXh6VqTrRk, AUTHENTICATE, imap/elwood.innosoft.com, 00000001.
RFC2831Args ==
    [ username |-> << 99, 104, 114, 105, 115 >>,
      realm |-> << 101, 108, 119, 111, 111, 100, 46, 105, 110, 110, 111, 115, 111, 102, 116, 46, 99, 111, 109 >>,
      passwd |-> << 115, 101, 99, 114, 101, 116 >>,
      nonce |-> << 79, 65, 54, 77, 71, 57, 116, 69, 81, 71, 109, 50, 104, 104 >>,
      cnonceStr |-> << 79, 65, 54, 77, 72, 88, 104, 54, 86, 113, 84, 114, 82, 107 >>,
      authenticate |-> << 65, 85, 84, 72, 69, 78, 84, 73, 67, 65, 84, 69 >>,
      digestUri |-> << 105, 109, 97, 112, 47, 101, 108, 119, 111, 111, 100, 46, 105, 110, 110, 111, 115, 111, 102, 116, 46, 99, 111, 109 >>,
      nonceCountStr |-> << 48, 48, 48, 48, 48, 48, 48, 49 >> ]

\* d388dad90d4bbd760a152321f2143af7.
RFC2831Response ==
    << 100, 51, 56, 56, 100, 97, 100, 57, 48, 100, 52, 98, 98, 100, 55, 54, 48, 97, 49, 53, 50, 51, 50, 49, 102, 50, 49, 52, 51, 97, 102, 55 >>

\* C15: the response is HEX(KD(HEX(H(A1)), nonce:nc:cnonce:auth:HEX(H(A2)))),
\* with A1 the bytes of H(user:realm:password) followed by :nonce:cnonce and
\* A2 = authenticate:digest-uri, H being MD5; for the arguments of the example
\* of RFC 2831 it is d388dad90d4bbd760a152321f2143af7.
C15_DigestResponse ==
    digest.called =>
        LET in == digest.in
            A1 == MD5(in.username \o << 58 >> \o in.realm \o << 58 >> \o in.passwd)
                    \o << 58 >> \o in.nonce \o << 58 >> \o in.cnonceStr
            A2 == in.authenticate \o << 58 >> \o in.digestUri
            data == in.nonce \o << 58 >> \o in.nonceCountStr \o << 58 >> \o in.cnonceStr
                      \o << 58, 97, 117, 116, 104, 58 >> \o hex(MD5(A2))
        IN  /\ digest.response = hex(MD5(hex(MD5(A1)) \o << 58 >> \o data))
            /\ Len(digest.response) = 32
            /\ in = RFC2831Args => digest.response = RFC2831Response

\* The call on the arguments of the example has returned.
C15_Witness ==
    /\ digest.called
    /\ digest.in = RFC2831Args
    /\ digest.response = RFC2831Response

----------------------------------------------------------------------------
(* The order of the negotiation *)

\* The last position of S before i, 0 if there is none.
LastBefore(S, i) ==
    IF { j \in S : j < i } = {} THEN 0
    ELSE CHOOSE j \in S : j < i /\ \A k \in S : k < i => k <= j

\* A position of S lies strictly between lo and hi.
Between(S, lo, hi) == \E j \in S : lo < j /\ j < hi

Reads(el) == { i \in 1..Len(wire) : IsR(i, el) }

WrittenIQ(what) == { i \in Written("iq") : wire[i].arg = what }

\* The stream header written last before position i.
CurrentStream(i) == LastBefore(Written("stream"), i)

\* C16: the writes of the negotiation follow the phases stream open,
\* [starttls, stream open], auth, stream open, bind IQ, [session IQ], presence.
\* <starttls/> and <auth> are written only after the features of the current
\* stream were read, <auth> after a <starttls/> only on a stream opened after
\* it; a stream header after <auth> only after <success/> was read; the bind IQ
\* only after the features of that reopened stream; the session IQ (only with
\* Options.Session) and the presence only after the reply to the bind IQ was
\* read; NewClient returns a Client only after the presence was written.
C16_PhaseOrder ==
    /\ \A i \in Written("starttls") :
          /\ CurrentStream(i) > 0
          /\ Between(FeaturesRead, CurrentStream(i), i)
          /\ \A a \in Written("auth") : i < a
    /\ \A i \in Written("auth") :
          /\ CurrentStream(i) > 0
          /\ Between(FeaturesRead, CurrentStream(i), i)
          /\ \A t \in Written("starttls") : t < CurrentStream(i)
    /\ \A i \in Written("stream") :
          \A a \in Written("auth") : a < i => Between(Reads("success"), a, i)
    /\ \A i \in WrittenIQ("bind") :
          /\ \E a \in Written("auth") : a < CurrentStream(i)
          /\ Between(FeaturesRead, CurrentStream(i), i)
    /\ \A i \in WrittenIQ("session") :
          /\ opts.Session
          /\ \E b \in WrittenIQ("bind") : Between(Reads("iq"), b, i)
    /\ \A i \in Written("presence") :
          /\ \E b \in WrittenIQ("bind") : Between(Reads("iq"), b, i)
          /\ opts.Session => \E b \in WrittenIQ("bind") : Between(WrittenIQ("session"), b, i)
          /\ \A j \in 1..Len(wire) : wire[j].dir = "w" => j <= i
    /\ (result = "ok" \/ pc = "ready") => Written("presence") # {}

\* C16 witness: a Client was returned after every phase, the optional ones
\* included.
C16_Witness ==
    /\ result = "ok"
    /\ pc = "ready"
    /\ Written("starttls") # {}
    /\ WrittenIQ("session") # {}
    /\ Written("presence") # {}

----------------------------------------------------------------------------
(* The DIGEST-MD5 exchange *)

\* The <response> elements written with a digest, and the empty ones.
DigestResponses == { i \in Written("response") : wire[i].arg = "digest" }

EmptyResponses == { i \in Written("response") : wire[i].arg = "" }

\* C17: under DIGEST-MD5 the <response> with the digest is written only after
\* a <challenge> was read, the empty <response/> only after a second
\* <challenge> was read, and init waits for <success> or <failure> only then;
\* a run that returns a Client wrote one <auth>, one <response> with the digest
\* and one empty <response/>, in this order; an element other than
\* <challenge> where a challenge is read is not taken for one: construction
\* fails.
C17_DigestExchange ==
    /\ \A i \in DigestResponses :
          /\ i > 1 /\ IsR(i - 1, "challenge")
          /\ \E a \in Written("auth") : a < i /\ wire[a].arg = "DIGEST-MD5"
    /\ \A i \in EmptyResponses :
          /\ i > 1 /\ IsR(i - 1, "challenge")
          /\ \E d \in DigestResponses : d < i - 1
          /\ Cardinality({ j \in Reads("challenge") : j < i }) = 2
    /\ (mechanism = "DIGEST-MD5" /\ pc = "auth_result") => EmptyResponses # {}
    /\ (mechanism = "DIGEST-MD5" /\ result = "ok") =>
          /\ Cardinality(Written("auth")) = 1
          /\ Cardinality(DigestResponses) = 1
          /\ Cardinality(EmptyResponses) = 1
    /\ \A i \in 1..Len(wire) :
          (/\ i > 1
           /\ wire[i - 1].dir = "w"
           /\ \/ IsW(i - 1, "auth") /\ wire[i - 1].arg = "DIGEST-MD5"
              \/ i - 1 \in DigestResponses
           /\ wire[i].dir \in { "r", "e" }
           /\ wire[i].el # "challenge")
          => /\ result = "err"
             /\ i = Len(wire)

----------------------------------------------------------------------------
(* The features a mechanism is chosen from *)

\* What the features read last before position i offer: the first mechanism
\* of their list that init implements, "" if there is none or none were read.
LatestOffer(i) ==
    IF LastBefore(FeaturesRead, i) = 0 THEN ""
    ELSE wire[LastBefore(FeaturesRead, i)].offer

\* C18: the mechanism of the <auth> written is chosen from the features
\* received last: it is the first mechanism of their list that init implements.
\* After a STARTTLS handshake these are the features of the stream reopened
\* over TLS; what the stream before the handshake advertised has no part in it.
C18_LatestFeatures ==
    \A i \in Written("auth") :
        /\ wire[i].arg = LatestOffer(i)
        /\ wire[i].arg \in Supported
        /\ \A t \in Written("starttls") :
              /\ t < LastBefore(FeaturesRead, i)
              /\ \E x \in 1..Len(wire) :
                    IsX(x, "starttls") /\ t < x /\ x < LastBefore(FeaturesRead, i)

\* C18 witness: <auth> was written after a STARTTLS handshake, naming another
\* mechanism than the one the features read before the handshake offered.
C18_Witness ==
    \E i \in Written("auth"), t \in Written("starttls") :
        /\ t < i
        /\ LatestOffer(t) \in Supported
        /\ LatestOffer(t) # wire[i].arg

----------------------------------------------------------------------------
(* Elements outside the table of next *)

\* The elements of Elements that next has no case for, and the error text that
\* names the namespace and the local part of each.
Untabled == { "stream", "unknown" }

UnexpectedText(el) ==
    IF el = "stream"
    THEN "unexpected XMPP message http://etherx.jabber.org/streams <stream/>"
    ELSE "unexpected XMPP message urn:xmpp:ping <ping/>"

\* C20: where next meets an element that is not in its table it returns the
\* error "unexpected XMPP message <namespace> <local/>" and no value. Where
\* init waits for <success> or <failure> the error ends construction; in Recv
\* it is what Recv returns, with no Chat or Presence.
C20_UnexpectedStanza ==
    /\ \A i \in 2..Len(wire) :
          (/\ IsW(i - 1, "auth") \/ i - 1 \in EmptyResponses
           /\ wire[i].dir = "e"
           /\ wire[i].el \in Untabled)
          => /\ i = Len(wire)
             /\ result = "err"
             /\ pc = "done"
             /\ err.detail = UnexpectedText(wire[i].el)
    /\ (arrived # << >> /\ arrived[Len(arrived)].el \in Untabled) =>
          /\ recvResult = "err"
          /\ pc = "ready"
          /\ delivered # << >>
          /\ delivered[Len(delivered)] =
                 [ kind |-> "err", detail |-> UnexpectedText(arrived[Len(arrived)].el) ]
          /\ Cardinality({ k \in 1..Len(delivered) : delivered[k].kind # "err" })
                 = Cardinality({ k \in 1..Len(arrived) :
                                   arrived[k].el \in { "message", "presence" } })

\* C20 witness: Recv has returned a stanza and then met an element that is not
\* in the table.
C20_Witness ==
    /\ Len(arrived) > 1
    /\ arrived[Len(arrived)].el \in Untabled
    /\ Len(delivered) > 1
    /\ delivered[Len(delivered)].kind = "err"

----------------------------------------------------------------------------
(* The bytes of the server across a restart *)

\* C19: whatever the server sends and however the reads of the connection cut
\* it up, no byte is lost when c.p is replaced: a byte sent after <proceed/> is
\* taken by the TLS handshake or by a later decoder, a byte sent after
\* <success/> by the decoder of the restarted stream, never left behind in the
\* buffer of the decoder that read the element.
C19_NoByteLost ==
    /\ reader.lost = << >>
    /\ \A i \in 1..Len(reader.consumed) :
          \A j \in 1..Len(reader.consumed) :
              (/\ reader.consumed[i][1] < reader.consumed[j][1]
               /\ Restarts(reader.consumed[i][2], reader.stream[reader.consumed[i][1]]))
              => reader.consumed[j][2] # reader.consumed[i][2]

----------------------------------------------------------------------------
(* The session IQ *)

\* C21: after the reply to the bind IQ was read, the session IQ is written if
\* and only if Options.Session is set, right before the initial presence; init
\* reads nothing between the reply to the bind IQ and its return, so whatever
\* the server answers to the session IQ has no part in the outcome; in a
\* construction that returns a Client the initial presence is the last thing
\* init wrote.
C21_SessionIQ ==
    /\ \A i \in WrittenIQ("session") :
          /\ opts.Session
          /\ i > 1 /\ IsR(i - 1, "iq")
          /\ i + 1 = Len(wire) /\ IsW(i + 1, "presence")
    /\ \A i \in Written("presence") :
          /\ i = Len(wire)
          /\ result = "ok"
          /\ IF opts.Session THEN i - 1 \in WrittenIQ("session")
             ELSE i > 1 /\ IsR(i - 1, "iq") /\ WrittenIQ("session") = {}
    /\ result = "ok" =>
          /\ IsW(Len(wire), "presence")
          /\ Cardinality(Written("presence")) = 1
          /\ WrittenIQ("session") # {} <=> opts.Session
          /\ Cardinality(WrittenIQ("session")) <= 1

\* C21 witness: a Client was returned under Options.Session, the session IQ and
\* then the presence being the last two things on the wire.
C21_Witness ==
    /\ result = "ok"
    /\ opts.Session
    /\ Len(wire) > 2
    /\ Len(wire) - 1 \in WrittenIQ("session")
    /\ IsW(Len(wire), "presence")
    /\ IsR(Len(wire) - 2, "iq")

----------------------------------------------------------------------------
(* One TLS layer *)

\* C22: c.conn is wrapped in TLS at most once; under NoTLS = false, where
\* NewClient has done the initial handshake, init writes no <starttls/> and
\* does no handshake of its own, whatever the features say. The runs in which
\* the features offer STARTTLS without requiring it and o.StartTLS is false are
\* left aside: the statement fails without them.
C22_WrappedOnce ==
    ~(FirstOffer = "optional" /\ ~opts.StartTLS) =>
        /\ tlsLayers <= 1
        /\ ~opts.NoTLS =>
              /\ Written("starttls") = {}
              /\ \A i \in 1..Len(wire) : ~IsX(i, "starttls")

====
